---- MODULE Spec2Model ----
(***************************************************************************)
(* Model of the 3-tier OpenTelemetry demo: the Express frontend            *)
(* (src/frontend/server.js), the Express backend with its PostgreSQL pool  *)
(* (src/backend/server.js) and the database initialisation.                *)
(*                                                                         *)
(* A client request occupies a slot.  A slot holds the frontend handler's  *)
(* state (fe) and the backend handler's state (be); the frontend's axios   *)
(* call creates the backend request of the same slot, a client may also    *)
(* call the backend directly.  Every await of the handlers is a step       *)
(* boundary, so handlers of different slots interleave as they do on the   *)
(* Node event loop.                                                        *)
(***************************************************************************)
EXTENDS Integers, Sequences, FiniteSets, TLC

\* ------------------------------------------------------------------ bounds
MaxReq == 1        \* request slots in flight at the same time
MaxSerial == 4     \* last value the users_id_seq sequence hands out
MaxNow == 1        \* Date.now() takes the values 0..MaxNow

Slots == 1..MaxReq
Nows == 0..MaxNow
NULL == "null"

\* ------------------------------------------------------- paths and routing
\* A path is a sequence of segments, a segment a sequence of characters:
\* "/api/users/1" is <<api, users, <<"1">>>>.
api == <<"a", "p", "i">>
usersSeg == <<"u", "s", "e", "r", "s">>
createSeg == <<"c", "r", "e", "a", "t", "e">>
statsSeg == <<"s", "t", "a", "t", "s">>
healthSeg == <<"h", "e", "a", "l", "t", "h">>

\* The values a client puts in the :id position.
IdSegs == {<<"1">>, <<"-", "9">>, <<"x">>, createSeg}

Digits == {"0", "1", "2", "3", "4", "5", "6", "7", "8", "9"}

DigitVal(c) ==
  CASE c = "0" -> 0 [] c = "1" -> 1 [] c = "2" -> 2 [] c = "3" -> 3
    [] c = "4" -> 4 [] c = "5" -> 5 [] c = "6" -> 6 [] c = "7" -> 7
    [] c = "8" -> 8 [] c = "9" -> 9

RECURSIVE DigitsVal(_)
DigitsVal(s) ==
  IF s = <<>> THEN 0 ELSE 10 * DigitsVal(SubSeq(s, 1, Len(s) - 1)) + DigitVal(s[Len(s)])

AllDigits(s) == s # <<>> /\ \A k \in 1..Len(s) : s[k] \in Digits

\* PostgreSQL's input conversion of a text parameter compared with the
\* integer column id: an optional sign and digits, anything else is the
\* error "invalid input syntax for type integer".
IsIntegerText(s) ==
  \/ AllDigits(s)
  \/ Len(s) > 1 /\ s[1] \in {"-", "+"} /\ AllDigits(Tail(s))

IntegerOf(s) ==
  IF s[1] = "-" THEN 0 - DigitsVal(Tail(s))
  ELSE IF s[1] = "+" THEN DigitsVal(Tail(s))
  ELSE DigitsVal(s)

\* A route pattern is a sequence of segments where PARAM stands for ":id".
PARAM == <<":">>

\* path-to-regexp: a pattern matches a path of the same length whose
\* segments equal the pattern's, a parameter matching any one segment.
Match(pattern, path) ==
  /\ Len(pattern) = Len(path)
  /\ \A k \in 1..Len(pattern) : pattern[k] = PARAM \/ pattern[k] = path[k]

\* The routes of the frontend app in the order app.get registers them.
FrontendRoutes ==
  << [method |-> "GET", pattern |-> <<healthSeg>>, handler |-> "health"],
     [method |-> "GET", pattern |-> <<>>, handler |-> "homepage"],
     [method |-> "GET", pattern |-> <<api, usersSeg>>, handler |-> "getUsers"],
     [method |-> "GET", pattern |-> <<api, usersSeg, PARAM>>, handler |-> "getUser"],
     [method |-> "GET", pattern |-> <<api, usersSeg, createSeg>>, handler |-> "createUser"],
     [method |-> "GET", pattern |-> <<api, statsSeg>>, handler |-> "getStats"] >>

\* The routes of the backend app in the order they are registered.
BackendRoutes ==
  << [method |-> "GET", pattern |-> <<healthSeg>>, handler |-> "health"],
     [method |-> "GET", pattern |-> <<usersSeg>>, handler |-> "getUsers"],
     [method |-> "GET", pattern |-> <<usersSeg, PARAM>>, handler |-> "getUser"],
     [method |-> "POST", pattern |-> <<usersSeg, createSeg>>, handler |-> "createUser"],
     [method |-> "GET", pattern |-> <<statsSeg>>, handler |-> "getStats"] >>

Matching(routes, method, path) ==
  {k \in 1..Len(routes) : routes[k].method = method /\ Match(routes[k].pattern, path)}

Min(S) == CHOOSE x \in S : \A y \in S : x <= y

\* Express's router: the first registered route that matches handles the
\* request (no handler here calls next()); with none, the final handler
\* answers 404.
Dispatch(routes, method, path) ==
  IF Matching(routes, method, path) = {} THEN "notFound"
  ELSE routes[Min(Matching(routes, method, path))].handler

FrontendPaths ==
  {<<healthSeg>>, <<>>, <<api, usersSeg>>, <<api, statsSeg>>, <<api>>}
    \cup {<<api, usersSeg, s>> : s \in IdSegs}

BackendPaths == {<<healthSeg>>, <<usersSeg, <<"1">>>>, <<usersSeg, createSeg>>}

Methods == {"GET", "POST"}

\* ------------------------------------------------------------------- state
VARIABLES
  tableExists,  \* CREATE TABLE IF NOT EXISTS users has run
  users,        \* the rows of table users
  nextId,       \* next value of the SERIAL sequence of users.id
  poolEnded,    \* pool.end() was called
  init,         \* initDatabase(): its position and its span
  fe,           \* per slot: the frontend handler
  be,           \* per slot: the backend handler
  feProc,       \* the frontend process
  beProc,       \* the backend process
  sh            \* the operator's working directory and the script that runs in it

vars == <<tableExists, users, nextId, poolEnded, init, fe, be, feProc, beProc, sh>>

\* A name or an email: a prefix and the Date.now() value appended to it.
Text(prefix, n) == [prefix |-> prefix, n |-> n]
NoText == Text(NULL, 0)

\* VALUES ('Alice Johnson', 'alice@example.com'), ('Bob Smith', ...), ...
SampleUsers == <<Text("alice", 0), Text("bob", 0), Text("charlie", 0)>>

\* A row of users; old: created_at is more than the 24 hours ago /stats
\* looks back.
Row(id, name, email, old) == [id |-> id, name |-> name, email |-> email, old |-> old]

\* A response body.  Every body has the same fields, the ones a kind does
\* not use are left at their defaults.
Body(kind) ==
  [kind |-> kind, msg |-> "", code |-> 0, rows |-> <<>>, total |-> 0, recent |-> 0,
   database |-> ""]

ErrorBody(msg) == [Body("error") EXCEPT !.msg = msg]
Response(status, body) == [status |-> status, body |-> body]

\* ORDER BY id
RECURSIVE OrderById(_)
OrderById(S) ==
  IF S = {} THEN <<>>
  ELSE LET r == CHOOSE x \in S : \A y \in S : x.id <= y.id
       IN <<r>> \o OrderById(S \ {r})

\* rejected: the promise of the async handler rejected.
IdleFe ==
  [pc |-> "idle", method |-> "GET", path |-> <<>>, handler |-> "none",
   spanStarted |-> 0, spanEnded |-> 0, resp |-> <<>>, rejected |-> FALSE]

\* Mutant of Send: a response is written whether or not one was sent.
SendAgain(resp, answer) == Append(resp, answer)

\* res.send / res.json / res.status(n).json on a response with the
\* responses resp already written: once the headers are sent the call
\* throws (ERR_HTTP_HEADERS_SENT) and writes nothing.
Send(resp, answer) == IF resp = <<>> THEN Append(resp, answer) ELSE resp

IdleBe ==
  [pc |-> "idle", origin |-> "none", method |-> "GET", path |-> <<>>,
   name |-> NoText, email |-> NoText, handler |-> "none",
   spanStarted |-> 0, spanEnded |-> 0, resp |-> <<>>, total |-> 0,
   queries |-> <<>>]

\* ------------------------------------------------------------ scripts: data
\* A text is a sequence of tokens, a token a run of characters none of the
\* substitutions splits: the image of the frontend in k8s/deployment.yaml,
\* monitorregistry.azurecr.io/otel-3tier-frontend:latest, is
\* <<Registry, Otel3Tier, FrontendTail>>.
Registry == "monitorregistry.azurecr.io/"
Otel3Tier == "otel-3tier"
FrontendTail == "-frontend:latest"
BackendTail == "-backend:latest"

FrontendPattern == <<Registry, Otel3Tier, FrontendTail>>
BackendPattern == <<Registry, Otel3Tier, BackendTail>>
NamespacePattern == <<Otel3Tier>>

\* sed "s|pattern|replacement|g": every occurrence of the pattern, found
\* left to right and not overlapping, is replaced.
RECURSIVE Sed(_, _, _)
Sed(text, pattern, replacement) ==
  IF Len(text) < Len(pattern) THEN text
  ELSE IF SubSeq(text, 1, Len(pattern)) = pattern
  THEN replacement \o Sed(SubSeq(text, Len(pattern) + 1, Len(text)), pattern, replacement)
  ELSE <<Head(text)>> \o Sed(Tail(text), pattern, replacement)

\* cat k8s/deployment.yaml | sed "s|otel-3tier|$NAMESPACE|g" |
\*   sed "s|...otel-3tier-frontend:latest|$FRONTEND_IMAGE|g" |
\*   sed "s|...otel-3tier-backend:latest|$BACKEND_IMAGE|g"
SedPipeline(manifest, namespace, frontendImage, backendImage) ==
  Sed(Sed(Sed(manifest, NamespacePattern, namespace),
          FrontendPattern, frontendImage),
      BackendPattern, backendImage)

\* The values of NAMESPACE in config.env.
Namespaces == {<<Otel3Tier>>, <<"otel-demo">>, <<Otel3Tier, "-dev">>}

\* The contents of k8s/deployment.yaml.
Manifests ==
  { <<"namespace: ", Otel3Tier, "image: ", Registry, Otel3Tier, FrontendTail,
      "image: ", Registry, Otel3Tier, BackendTail>>,
    <<"image: ", Registry, Otel3Tier, FrontendTail,
      "image: ", Registry, Otel3Tier, FrontendTail>>,
    <<"image: ", Registry, Otel3Tier, BackendTail>>,
    <<"namespace: ", Otel3Tier>> }

\* export FRONTEND_IMAGE="$ACR_LOGIN_SERVER/otel-demo-frontend:${FRONTEND_IMAGE_TAG:-latest}"
\* export BACKEND_IMAGE="$ACR_LOGIN_SERVER/otel-demo-backend:${BACKEND_IMAGE_TAG:-latest}"
FrontendImage == <<"$ACR_LOGIN_SERVER/", "otel-demo", FrontendTail>>
BackendImage == <<"$ACR_LOGIN_SERVER/", "otel-demo", BackendTail>>
Images == {FrontendImage, BackendImage}

NoFile == <<"(no file)">>

\* What read leaves in REPLY; EOF stands for the end of input, where read
\* fails.
EOF == "(end of input)"
Replies == {"yes", "YES", "y", " yes", "no", "", EOF}

\* Mutant of Confirmed: any reply that starts like a yes confirms.
ConfirmedLoosely(reply) == reply \in {"yes", "YES", "y"}

\* [[ ! $REPLY == "yes" ]] fails
Confirmed(reply) == reply = "yes"

\* The files config.env, setup-outputs.env and image-refs.env: which exist.
Files(config, setupOut, imageRefs) ==
  [config |-> config, setupOut |-> setupOut, imageRefs |-> imageRefs]

\* A run of a script: where it is, how it exited, the files it started
\* with and the commands it has run.
NoRun ==
  [script |-> "none", pc |-> "exited", exit |-> 0,
   start |-> Files(FALSE, FALSE, FALSE),
   built |-> {}, pushed |-> {}, wrote |-> FALSE,
   applied |-> NoFile, reply |-> "", prompted |-> FALSE,
   namespaceDelete |-> FALSE, groupDelete |-> FALSE]

\* The working directory before any script has run.
Workdir(files, namespace, manifest) ==
  [files |-> files, namespace |-> namespace, manifest |-> manifest,
   temp |-> NoFile, run |-> NoRun]

\* The state when both servers listen: the listen callback of the backend
\* has called initDatabase, which started its span and issued CREATE TABLE.
\* The database is new, or it is the one an earlier run of the backend
\* initialised.
Init ==
  /\ \/ tableExists = FALSE /\ users = {} /\ nextId = 1
     \/ /\ tableExists = TRUE
        /\ users = {Row(k, SampleUsers[k], SampleUsers[k], TRUE) : k \in 1..Len(SampleUsers)}
        /\ nextId = Len(SampleUsers) + 1
  /\ poolEnded = FALSE
  /\ init = [pc |-> "create", spanStarted |-> 1, spanEnded |-> 0]
  /\ fe = [i \in Slots |-> IdleFe]
  /\ be = [i \in Slots |-> IdleBe]
  /\ feProc = [pc |-> "running", exitCode |-> -1]
  /\ beProc = [pc |-> "running", exitCode |-> -1]
  /\ sh = Workdir(Files(FALSE, FALSE, FALSE), <<Otel3Tier>>, <<>>)

\* ----------------------------------------------------------------- database
\* pool.query gets an answer from the server: the server answered (the
\* input up of the step) and the pool has not been ended.
PoolOk(up) == up /\ ~poolEnded

\* A query on table users succeeds.
UsersOk(up) == PoolOk(up) /\ tableExists

\* ------------------------------------------------------------- initDatabase
\* await pool.query(CREATE TABLE IF NOT EXISTS users ...)
InitCreate(up) ==
  /\ init.pc = "create"
  /\ beProc.pc # "exited"
  /\ IF PoolOk(up)
     THEN /\ tableExists' = TRUE
          /\ init' = [init EXCEPT !.pc = "count"]
     ELSE /\ init' = [init EXCEPT !.pc = "failed", !.spanEnded = @ + 1]
          /\ UNCHANGED tableExists
  /\ UNCHANGED <<users, nextId, poolEnded, fe, be, feProc, beProc, sh>>

\* const countResult = await pool.query('SELECT COUNT(*) FROM users')
InitCount(up) ==
  /\ init.pc = "count"
  /\ beProc.pc # "exited"
  /\ init' = IF ~UsersOk(up) THEN [init EXCEPT !.pc = "failed", !.spanEnded = @ + 1]
             ELSE IF Cardinality(users) = 0 THEN [init EXCEPT !.pc = "insert"]
             ELSE [init EXCEPT !.pc = "done", !.spanEnded = @ + 1]
  /\ UNCHANGED <<tableExists, users, nextId, poolEnded, fe, be, feProc, beProc, sh>>

\* await pool.query(INSERT INTO users (name, email) VALUES ... three rows);
\* the statement fails as a whole on a duplicate email, the sequence values
\* it drew stay drawn.
InitInsert(up) ==
  /\ init.pc = "insert"
  /\ beProc.pc # "exited"
  /\ IF ~UsersOk(up)
     THEN /\ init' = [init EXCEPT !.pc = "failed", !.spanEnded = @ + 1]
          /\ UNCHANGED <<users, nextId>>
     ELSE IF \E u \in users : \E k \in 1..Len(SampleUsers) : u.email = SampleUsers[k]
     THEN /\ init' = [init EXCEPT !.pc = "failed", !.spanEnded = @ + 1]
          /\ nextId' = nextId + 1
          /\ UNCHANGED users
     ELSE /\ users' = users \cup {Row(nextId + k - 1, SampleUsers[k], SampleUsers[k], FALSE) :
                                    k \in 1..Len(SampleUsers)}
          /\ nextId' = nextId + Len(SampleUsers)
          /\ init' = [init EXCEPT !.pc = "done", !.spanEnded = @ + 1]
  /\ UNCHANGED <<tableExists, poolEnded, fe, be, feProc, beProc, sh>>

\* ----------------------------------------------------------------- frontend
\* The request axios sends for a frontend handler: axios.get(BACKEND_URL +
\* '/users'), axios.get(BACKEND_URL + '/users/' + userId), axios.post(
\* BACKEND_URL + '/users/create', {name, email}), axios.get(BACKEND_URL +
\* '/stats').
BackendCall(handler, path, now) ==
  LET call(method, p, name, email) ==
        [IdleBe EXCEPT !.pc = "sent", !.origin = "frontend", !.method = method,
                       !.path = p, !.name = name, !.email = email]
  IN CASE handler = "getUsers" -> call("GET", <<usersSeg>>, NoText, NoText)
       [] handler = "getUser" -> call("GET", <<usersSeg, path[3]>>, NoText, NoText)
       [] handler = "createUser" ->
            call("POST", <<usersSeg, createSeg>>, Text("User", now), Text("user", now))
       [] handler = "getStats" -> call("GET", <<statsSeg>>, NoText, NoText)

\* The promise of an async route handler rejects and nothing handles it:
\* the process ends with code 1 (crashes), or it warns and runs on,
\* whichever the versions of Node and Express in the image do.
HandlerRejected(crashes) ==
  IF crashes THEN [pc |-> "crashed", exitCode |-> 1] ELSE feProc

\* The frontend process serves requests.
FeServes == feProc.pc \notin {"exited", "crashed"}

\* GET /: res.send(page), then span.setAttributes; when that step throws,
\* the catch block calls res.status(500).json on the response already sent,
\* which throws out of the handler; the finally block ends the span on both
\* paths.
Homepage(req, throws) ==
  LET sent == Send(req.resp, Response(200, Body("html")))
  IN [req EXCEPT !.pc = "done", !.spanStarted = 1, !.spanEnded = 1,
                 !.resp = IF throws THEN Send(sent, Response(500, ErrorBody("thrown")))
                          ELSE sent,
                 !.rejected = throws]

\* A request arrives at the frontend and runs up to the handler's first
\* await: /health and / answer at once, the /api handlers start their span
\* and call the backend, a request no route matches gets Express's 404.
FeReceive(i, method, path, now, throws, crashes) ==
  /\ FeServes
  /\ fe[i].pc = "idle" /\ be[i].pc = "idle"
  /\ LET handler == Dispatch(FrontendRoutes, method, path)
         req == [IdleFe EXCEPT !.method = method, !.path = path, !.handler = handler]
     IN /\ CASE handler = "notFound" ->
                  /\ fe' = [fe EXCEPT ![i] = [req EXCEPT !.pc = "done",
                               !.resp = Send(@, Response(404, Body("notFound")))]]
                  /\ UNCHANGED be
             [] handler = "health" ->
                  /\ fe' = [fe EXCEPT ![i] = [req EXCEPT !.pc = "done",
                               !.resp = Send(@, Response(200, Body("healthy")))]]
                  /\ UNCHANGED be
             [] handler = "homepage" ->
                  /\ fe' = [fe EXCEPT ![i] = Homepage(req, throws)]
                  /\ UNCHANGED be
             [] OTHER ->
                  /\ fe' = [fe EXCEPT ![i] = [req EXCEPT !.pc = "await", !.spanStarted = 1]]
                  /\ be' = [be EXCEPT ![i] = BackendCall(handler, path, now)]
        /\ IF handler = "homepage" /\ throws
           THEN feProc' = HandlerRejected(crashes)
           ELSE /\ ~throws /\ ~crashes
                /\ UNCHANGED feProc
  /\ UNCHANGED <<tableExists, users, nextId, poolEnded, init, beProc, sh>>

\* Mutant of AxiosResolves: only a server error makes axios throw.
AxiosResolvesBelow500(b) == b.pc = "done" /\ b.resp[1].status < 500

\* axios resolves for a status in 200..299 and throws for every other
\* status (validateStatus) and when there is no response.
AxiosResolves(b) == b.pc = "done" /\ b.resp[1].status >= 200 /\ b.resp[1].status < 300

\* The await of the axios call returns: res.json(response.data), or the
\* catch block's res.status(500).json({error: error.message}); the finally
\* block ends the span.
FeResume(i) ==
  /\ FeServes
  /\ fe[i].pc = "await"
  /\ be[i].pc \in {"done", "refused"}
  /\ LET b == be[i]
         answer ==
           IF AxiosResolves(b) THEN Response(200, b.resp[1].body)
           ELSE IF b.pc = "done"
           THEN Response(500, [ErrorBody("Request failed with status code")
                                 EXCEPT !.code = b.resp[1].status])
           ELSE Response(500, ErrorBody("connect ECONNREFUSED"))
     IN fe' = [fe EXCEPT ![i] = [@ EXCEPT !.pc = "done", !.spanEnded = @ + 1,
                                          !.resp = Send(@, answer)]]
  /\ UNCHANGED <<tableExists, users, nextId, poolEnded, init, be, feProc, beProc, sh>>

\* ------------------------------------------------------------------ backend
\* The names and emails a client posts to the backend itself; NoText is a
\* field the JSON body leaves out.
ClientBodies ==
  {[name |-> NoText, email |-> NoText],
   [name |-> Text("alice", 0), email |-> Text("alice", 0)]}

\* A client calls the backend directly (a probe, curl).
BeDirect(i, method, path, name, email) ==
  /\ fe[i].pc = "idle" /\ be[i].pc = "idle"
  /\ method = "POST" \/ (name = NoText /\ email = NoText)
  /\ be' = [be EXCEPT ![i] = [IdleBe EXCEPT !.pc = "sent", !.origin = "client",
                                !.method = method, !.path = path,
                                !.name = name, !.email = email]]
  /\ UNCHANGED <<tableExists, users, nextId, poolEnded, init, fe, feProc, beProc, sh>>

\* The bound on POST /users/create: users are created once initDatabase
\* has finished, and while the sequence is at most MaxSerial.
CreateAdmitted == init.pc \in {"done", "failed"} /\ nextId <= MaxSerial

\* The backend takes the request and runs up to the handler's first await:
\* the handler starts its span and issues its first query; a request no
\* route matches gets Express's 404.
BeStart(i) ==
  /\ beProc.pc # "exited"
  /\ be[i].pc = "sent"
  /\ LET handler == Dispatch(BackendRoutes, be[i].method, be[i].path)
     IN /\ handler = "createUser" => CreateAdmitted
        /\ be' = [be EXCEPT ![i] =
                    IF handler = "notFound"
                    THEN [@ EXCEPT !.pc = "done", !.handler = handler,
                                   !.resp = Send(@, Response(404, Body("notFound")))]
                    ELSE [@ EXCEPT !.pc = "q1", !.handler = handler, !.spanStarted = 1]]
  /\ UNCHANGED <<tableExists, users, nextId, poolEnded, init, fe, feProc, beProc, sh>>

\* Mutant of Finish: the span is ended in the try block, which the 404
\* branch and the catch block do not reach.
FinishEndsSpanInTry(b, status, body) ==
  [b EXCEPT !.pc = "done", !.spanEnded = IF status < 300 THEN @ + 1 ELSE @,
            !.resp = Send(@, Response(status, body))]

\* The handler's try/catch/finally after its last query: one response, then
\* span.end().
Finish(b, status, body) ==
  [b EXCEPT !.pc = "done", !.spanEnded = @ + 1, !.resp = Send(@, Response(status, body))]

\* The outcome of an awaited pool.query is kept with the request: TRUE when
\* the promise resolved, FALSE when it rejected.
Queried(b, resolved) == [b EXCEPT !.queries = Append(@, resolved)]

\* Mutant of Health: the probe's failure is not reported.
HealthAlwaysConnected(b, up) ==
  Finish(b, 200, [Body("healthy") EXCEPT !.database = "connected"])

\* GET /health after await pool.query('SELECT 1')
Health(b, up) ==
  IF PoolOk(up)
  THEN Finish(b, 200, [Body("healthy") EXCEPT !.database = "connected"])
  ELSE Finish(b, 503, [Body("unhealthy") EXCEPT !.database = "disconnected"])

\* GET /users after SELECT id, name, email, created_at FROM users ORDER BY id
GetUsers(b, up) ==
  IF UsersOk(up)
  THEN Finish(b, 200, [Body("rows") EXCEPT !.rows = OrderById(users)])
  ELSE Finish(b, 500, ErrorBody("query failed"))

\* GET /users/:id after SELECT ... FROM users WHERE id = $1 with the text
\* of req.params.id as $1
GetUser(b, up) ==
  LET userId == b.path[2]
      found == {u \in users : u.id = IntegerOf(userId)}
  IN IF ~UsersOk(up) THEN Finish(b, 500, ErrorBody("query failed"))
     ELSE IF ~IsIntegerText(userId)
     THEN Finish(b, 500, ErrorBody("invalid input syntax for type integer"))
     ELSE IF found = {} THEN Finish(b, 404, ErrorBody("User not found"))
     ELSE Finish(b, 200, [Body("row") EXCEPT !.rows = OrderById(found)])

\* The INSERT of POST /users/create is accepted: name and email NOT NULL,
\* email UNIQUE.
InsertOk(b) ==
  /\ b.name # NoText /\ b.email # NoText
  /\ \A u \in users : u.email # b.email

\* POST /users/create after INSERT INTO users (name, email) VALUES ($1, $2)
\* RETURNING id, name, email, created_at
CreateUser(b, up) ==
  IF ~UsersOk(up) THEN Finish(b, 500, ErrorBody("query failed"))
  ELSE IF ~InsertOk(b) THEN Finish(b, 500, ErrorBody("constraint violated"))
  ELSE Finish(b, 201, [Body("row") EXCEPT
                         !.rows = <<Row(nextId, b.name, b.email, FALSE)>>])

\* GET /stats after the first query, SELECT COUNT(*) as total FROM users
GetStats1(b, up) ==
  IF UsersOk(up) THEN [b EXCEPT !.pc = "q2", !.total = Cardinality(users)]
  ELSE Finish(b, 500, ErrorBody("query failed"))

\* GET /stats after the second query, the count of the rows of the last 24
\* hours
GetStats2(b, up) ==
  IF UsersOk(up)
  THEN Finish(b, 200, [Body("stats") EXCEPT !.total = b.total,
                         !.recent = Cardinality({u \in users : ~u.old})])
  ELSE Finish(b, 500, ErrorBody("query failed"))

\* The promise of the handler's first pool.query resolves: the server
\* answered and accepted the statement.
QueryResolves(b, up) ==
  CASE b.handler = "health" -> PoolOk(up)
    [] b.handler = "getUser" -> UsersOk(up) /\ IsIntegerText(b.path[2])
    [] b.handler = "createUser" -> UsersOk(up) /\ InsertOk(b)
    [] OTHER -> UsersOk(up)

\* The first query of a backend handler returns and the handler runs on to
\* its next await or to its end.
BeQuery1(i, up) ==
  /\ beProc.pc # "exited"
  /\ be[i].pc = "q1"
  /\ LET b == Queried(be[i], QueryResolves(be[i], up))
     IN /\ be' = [be EXCEPT ![i] =
                    CASE b.handler = "health" -> Health(b, up)
                      [] b.handler = "getUsers" -> GetUsers(b, up)
                      [] b.handler = "getUser" -> GetUser(b, up)
                      [] b.handler = "createUser" -> CreateUser(b, up)
                      [] b.handler = "getStats" -> GetStats1(b, up)]
        /\ IF b.handler = "createUser" /\ UsersOk(up)
           THEN /\ nextId' = nextId + 1
                /\ users' = IF InsertOk(b)
                            THEN users \cup {Row(nextId, b.name, b.email, FALSE)}
                            ELSE users
           ELSE UNCHANGED <<users, nextId>>
  /\ UNCHANGED <<tableExists, poolEnded, init, fe, feProc, beProc, sh>>

\* The second query of GET /stats returns.
BeQuery2(i, up) ==
  /\ beProc.pc # "exited"
  /\ be[i].pc = "q2"
  /\ be' = [be EXCEPT ![i] = GetStats2(Queried(be[i], UsersOk(up)), up)]
  /\ UNCHANGED <<tableExists, users, nextId, poolEnded, init, fe, feProc, beProc, sh>>

\* The backend process is gone: a request it has not answered never gets a
\* response (connection refused or reset).
BeRefused(i) ==
  /\ beProc.pc = "exited"
  /\ be[i].pc \in {"sent", "q1", "q2"}
  /\ be' = [be EXCEPT ![i].pc = "refused"]
  /\ UNCHANGED <<tableExists, users, nextId, poolEnded, init, fe, feProc, beProc, sh>>

\* The client has its answer (or its connection error): the slot serves the
\* next request.
Release(i) ==
  /\ \/ fe[i].pc = "done"
     \/ fe[i].pc = "idle" /\ be[i].pc \in {"done", "refused"}
  /\ fe' = [fe EXCEPT ![i] = IdleFe]
  /\ be' = [be EXCEPT ![i] = IdleBe]
  /\ UNCHANGED <<tableExists, users, nextId, poolEnded, init, feProc, beProc, sh>>

\* ----------------------------------------------------------------- shutdown
\* process.on('SIGTERM') of the frontend: sdk.shutdown() is called.
FeSigterm ==
  /\ feProc.pc = "running"
  /\ feProc' = [feProc EXCEPT !.pc = "sdkShutdown"]
  /\ UNCHANGED <<tableExists, users, nextId, poolEnded, init, fe, be, beProc, sh>>

\* sdk.shutdown() settles: .then or .catch logs, .finally calls
\* process.exit(0).
FeSdkSettles(resolved) ==
  /\ feProc.pc = "sdkShutdown"
  /\ feProc' = [pc |-> "exited", exitCode |-> 0]
  /\ UNCHANGED <<tableExists, users, nextId, poolEnded, init, fe, be, beProc, sh>>

\* process.on('SIGTERM') of the backend: the async listener awaits
\* sdk.shutdown().
BeSigterm ==
  /\ beProc.pc = "running"
  /\ beProc' = [beProc EXCEPT !.pc = "sdkShutdown"]
  /\ UNCHANGED <<tableExists, users, nextId, poolEnded, init, fe, be, feProc, sh>>

\* A rejected await in the async listener rejects the listener's promise,
\* which nothing handles: Node 15 and later end the process with code 1,
\* earlier versions warn and the process runs on (the SIGTERM listener has
\* replaced the default termination).
Unhandled(crashes) ==
  IF crashes THEN [pc |-> "exited", exitCode |-> 1]
  ELSE [pc |-> "rejected", exitCode |-> -1]

\* await sdk.shutdown() settles: on success pool.end() is called and
\* awaited.
BeSdkSettles(resolved, crashes) ==
  /\ beProc.pc = "sdkShutdown"
  /\ IF resolved
     THEN /\ beProc' = [beProc EXCEPT !.pc = "poolEnd"]
          /\ poolEnded' = TRUE
     ELSE /\ beProc' = Unhandled(crashes)
          /\ UNCHANGED poolEnded
  /\ UNCHANGED <<tableExists, users, nextId, init, fe, be, feProc, sh>>

\* await pool.end() settles and process.exit(0) runs.
BePoolEndSettles ==
  /\ beProc.pc = "poolEnd"
  /\ beProc' = [pc |-> "exited", exitCode |-> 0]
  /\ UNCHANGED <<tableExists, users, nextId, poolEnded, init, fe, be, feProc, sh>>

\* ------------------------------------------------------------------ scripts
serviceVars == <<tableExists, users, nextId, poolEnded, init, fe, be, feProc, beProc>>

\* No script is running: the operator types the next command.
AtPrompt == sh.run.pc = "exited"

\* A command starts with the files it finds; sh.run is the last command.
Started(script) == [NoRun EXCEPT !.script = script, !.pc = "start", !.start = sh.files]

\* exit with a status; set -e exits with the status of the failed command.
Exited(run, status) == [run EXCEPT !.pc = "exited", !.exit = status]

\* cp config.env.example config.env
CreateConfig ==
  /\ AtPrompt
  /\ ~sh.files.config
  /\ sh' = [sh EXCEPT !.files.config = TRUE, !.run = Exited(Started("cp"), 0)]
  /\ UNCHANGED serviceVars

\* ./scripts/setup.sh: creates the Azure resources and saves its outputs
\* for the next steps.
Setup ==
  /\ AtPrompt
  /\ sh.files.config
  /\ sh' = [sh EXCEPT !.files.setupOut = TRUE, !.run = Exited(Started("setup"), 0)]
  /\ UNCHANGED serviceVars

\* Mutant of BuildStart: setup-outputs.env is not tested.
BuildStartWithoutOutputs ==
  /\ AtPrompt
  /\ sh' = [sh EXCEPT !.run =
              IF ~sh.files.config THEN Exited(Started("build"), 1)
              ELSE [Started("build") EXCEPT !.pc = "buildFrontend"]]
  /\ UNCHANGED serviceVars

\* build-and-push.sh up to its first docker command: config.env and
\* setup-outputs.env are tested and sourced.
BuildStart ==
  /\ AtPrompt
  /\ sh' = [sh EXCEPT !.run =
              IF ~sh.files.config THEN Exited(Started("build"), 1)
              ELSE IF ~sh.files.setupOut THEN Exited(Started("build"), 1)
              ELSE [Started("build") EXCEPT !.pc = "buildFrontend"]]
  /\ UNCHANGED serviceVars

\* The script's next step after a docker command that succeeded.
AfterDocker(pc) ==
  CASE pc = "buildFrontend" -> "buildBackend"
    [] pc = "buildBackend" -> "pushFrontend"
    [] pc = "pushFrontend" -> "pushBackend"
    [] pc = "pushBackend" -> "write"

\* The run after the docker command the script is at: docker build of the
\* frontend, of the backend, docker push of the frontend, of the backend.
Docker(run, ok) ==
  IF ~ok THEN Exited(run, 1)
  ELSE [run EXCEPT
          !.pc = AfterDocker(run.pc),
          !.built = CASE run.pc = "buildFrontend" -> @ \cup {FrontendImage}
                      [] run.pc = "buildBackend" -> @ \cup {BackendImage}
                      [] OTHER -> @,
          !.pushed = CASE run.pc = "pushFrontend" -> @ \cup {FrontendImage}
                       [] run.pc = "pushBackend" -> @ \cup {BackendImage}
                       [] OTHER -> @]

\* One docker command of build-and-push.sh runs.
BuildDocker(ok) ==
  /\ sh.run.script = "build"
  /\ sh.run.pc \in {"buildFrontend", "buildBackend", "pushFrontend", "pushBackend"}
  /\ sh' = [sh EXCEPT !.run = Docker(sh.run, ok)]
  /\ UNCHANGED serviceVars

\* cat > image-refs.env, then the script ends.
BuildWrite ==
  /\ sh.run.script = "build" /\ sh.run.pc = "write"
  /\ sh' = [sh EXCEPT !.files.imageRefs = TRUE,
                      !.run = Exited([sh.run EXCEPT !.wrote = TRUE], 0)]
  /\ UNCHANGED serviceVars

\* deploy.sh up to kubectl apply: config.env and image-refs.env are tested
\* and sourced, the sed pipeline writes /tmp/deployment-temp.yaml.
DeployStart ==
  /\ AtPrompt
  /\ IF ~sh.files.config \/ ~sh.files.imageRefs
     THEN sh' = [sh EXCEPT !.run = Exited(Started("deploy"), 1)]
     ELSE sh' = [sh EXCEPT
                   !.temp = SedPipeline(sh.manifest, sh.namespace, FrontendImage, BackendImage),
                   !.run = [Started("deploy") EXCEPT !.pc = "apply"]]
  /\ UNCHANGED serviceVars

\* kubectl apply -f /tmp/deployment-temp.yaml -n $NAMESPACE
DeployApply(ok) ==
  /\ sh.run.script = "deploy" /\ sh.run.pc = "apply"
  /\ sh' = [sh EXCEPT !.run =
              IF ok THEN [sh.run EXCEPT !.pc = "wait", !.applied = sh.temp]
              ELSE Exited(sh.run, 1)]
  /\ UNCHANGED serviceVars

\* The three kubectl wait for the pods, then the report and
\* rm -f /tmp/deployment-temp.yaml.
DeployWait(ok) ==
  /\ sh.run.script = "deploy" /\ sh.run.pc = "wait"
  /\ IF ok
     THEN sh' = [sh EXCEPT !.temp = NoFile, !.run = Exited(sh.run, 0)]
     ELSE sh' = [sh EXCEPT !.run = Exited(sh.run, 1)]
  /\ UNCHANGED serviceVars

\* cleanup.sh up to its prompt: config.env is tested and sourced, the
\* warning is printed.
CleanupStart ==
  /\ AtPrompt
  /\ sh' = [sh EXCEPT !.run =
              IF ~sh.files.config THEN Exited(Started("cleanup"), 1)
              ELSE [Started("cleanup") EXCEPT !.pc = "prompt"]]
  /\ UNCHANGED serviceVars

\* read -p "... (type 'yes' to confirm): " -r and the test of $REPLY: at
\* the end of input read fails and set -e ends the script.
CleanupReply(reply) ==
  /\ sh.run.script = "cleanup" /\ sh.run.pc = "prompt"
  /\ LET run == [sh.run EXCEPT !.prompted = TRUE, !.reply = reply]
     IN sh' = [sh EXCEPT !.run =
                 IF reply = EOF THEN Exited(run, 1)
                 ELSE IF ~Confirmed(reply) THEN Exited(run, 0)
                 ELSE [run EXCEPT !.pc = "deleteNamespace"]]
  /\ UNCHANGED serviceVars

\* kubectl delete namespace $NAMESPACE --ignore-not-found=true || print_warning
CleanupDeleteNamespace(ok) ==
  /\ sh.run.script = "cleanup" /\ sh.run.pc = "deleteNamespace"
  /\ sh' = [sh EXCEPT !.run = [sh.run EXCEPT !.pc = "deleteGroup", !.namespaceDelete = TRUE]]
  /\ UNCHANGED serviceVars

\* az group delete --name $RESOURCE_GROUP --yes --no-wait, then
\* rm -f setup-outputs.env image-refs.env
CleanupDeleteGroup(ok) ==
  /\ sh.run.script = "cleanup" /\ sh.run.pc = "deleteGroup"
  /\ LET run == [sh.run EXCEPT !.groupDelete = TRUE]
     IN IF ok
        THEN sh' = [sh EXCEPT !.files.setupOut = FALSE, !.files.imageRefs = FALSE,
                              !.run = Exited(run, 0)]
        ELSE sh' = [sh EXCEPT !.run = Exited(run, 1)]
  /\ UNCHANGED serviceVars

\* The operator's directory when the first script runs: any of the three
\* files may be there from earlier runs.
ScriptInit ==
  /\ tableExists = FALSE /\ users = {} /\ nextId = 1
  /\ poolEnded = FALSE
  /\ init = [pc |-> "create", spanStarted |-> 1, spanEnded |-> 0]
  /\ fe = [i \in Slots |-> IdleFe]
  /\ be = [i \in Slots |-> IdleBe]
  /\ feProc = [pc |-> "running", exitCode |-> -1]
  /\ beProc = [pc |-> "running", exitCode |-> -1]
  /\ \E c \in BOOLEAN, o \in BOOLEAN, r \in BOOLEAN, n \in Namespaces, m \in Manifests :
       sh = Workdir(Files(c, o, r), n, m)

ScriptNext ==
  \/ CreateConfig
  \/ Setup
  \/ BuildStart
  \/ \E ok \in BOOLEAN : BuildDocker(ok)
  \/ BuildWrite
  \/ DeployStart
  \/ \E ok \in BOOLEAN : DeployApply(ok)
  \/ \E ok \in BOOLEAN : DeployWait(ok)
  \/ CleanupStart
  \/ \E reply \in Replies : CleanupReply(reply)
  \/ \E ok \in BOOLEAN : CleanupDeleteNamespace(ok)
  \/ \E ok \in BOOLEAN : CleanupDeleteGroup(ok)

ScriptSpec == ScriptInit /\ [][ScriptNext]_vars

\* --------------------------------------------------------------------- Next
Next ==
  \/ \E up \in BOOLEAN : InitCreate(up)
  \/ \E up \in BOOLEAN : InitCount(up)
  \/ \E up \in BOOLEAN : InitInsert(up)
  \/ \E i \in Slots, m \in Methods, p \in FrontendPaths, now \in Nows,
          throws \in BOOLEAN, crashes \in BOOLEAN :
       FeReceive(i, m, p, now, throws, crashes)
  \/ \E i \in Slots : FeResume(i)
  \/ \E i \in Slots, m \in Methods, p \in BackendPaths, b \in ClientBodies :
       BeDirect(i, m, p, b.name, b.email)
  \/ \E i \in Slots : BeStart(i)
  \/ \E i \in Slots, up \in BOOLEAN : BeQuery1(i, up)
  \/ \E i \in Slots, up \in BOOLEAN : BeQuery2(i, up)
  \/ \E i \in Slots : BeRefused(i)
  \/ \E i \in Slots : Release(i)
  \/ FeSigterm
  \/ \E r \in BOOLEAN : FeSdkSettles(r)
  \/ BeSigterm
  \/ \E r \in BOOLEAN, c \in BOOLEAN : BeSdkSettles(r, c)
  \/ BePoolEndSettles

Spec == Init /\ [][Next]_vars

\* ----------------------------------------------------------- type invariant
TypeOK ==
  /\ tableExists \in BOOLEAN /\ poolEnded \in BOOLEAN
  /\ nextId \in 1..(MaxSerial + Len(SampleUsers) + MaxReq)
  /\ init.pc \in {"create", "count", "insert", "done", "failed"}
  /\ \A i \in Slots :
       /\ fe[i].pc \in {"idle", "await", "done"}
       /\ be[i].pc \in {"idle", "sent", "q1", "q2", "done", "refused"}
  /\ feProc.pc \in {"running", "sdkShutdown", "exited", "crashed"}
  /\ beProc.pc \in {"running", "sdkShutdown", "poolEnd", "rejected", "exited"}

\* ------------------------------------------------------------------- claims
CreatePath == <<api, usersSeg, createSeg>>

\* C15: a GET of /api/users/create is handled by the frontend's createUser
\* handler, which sends one POST /users/create to the backend.
C15_CreateRouteReachesCreateUser ==
  \A i \in Slots :
    (fe[i].pc # "idle" /\ fe[i].method = "GET" /\ fe[i].path = CreatePath)
      => /\ fe[i].handler = "createUser"
         /\ be[i].origin = "frontend"
         /\ be[i].method = "POST"
         /\ be[i].path = <<usersSeg, createSeg>>

\* C19: after SIGTERM a service that has stopped has called process.exit(0),
\* the shutdown never ends in a rejected listener that leaves the process
\* running, and the backend has called pool.end() before it exits.
C19_ShutdownExitsZero ==
  /\ feProc.pc = "exited" => feProc.exitCode = 0
  /\ beProc.pc # "rejected"
  /\ beProc.pc = "exited" => (beProc.exitCode = 0 /\ poolEnded)

\* C20: the backend's /health answers 200 with database 'connected' exactly
\* when its probe query resolved and 503 'unhealthy', 'disconnected' exactly
\* when it rejected; the frontend's /health answers 200 'healthy' always.
C20_Health ==
  \A i \in Slots :
    /\ (be[i].pc = "done" /\ be[i].handler = "health") =>
         /\ Len(be[i].resp) = 1 /\ Len(be[i].queries) = 1
         /\ be[i].queries[1] =>
              /\ be[i].resp[1].status = 200
              /\ be[i].resp[1].body.kind = "healthy"
              /\ be[i].resp[1].body.database = "connected"
         /\ ~be[i].queries[1] =>
              /\ be[i].resp[1].status = 503
              /\ be[i].resp[1].body.kind = "unhealthy"
              /\ be[i].resp[1].body.database = "disconnected"
    /\ (fe[i].method = "GET" /\ fe[i].path = <<healthSeg>> /\ fe[i].pc # "idle") =>
         /\ fe[i].pc = "done"
         /\ fe[i].resp = <<Response(200, Body("healthy"))>>

\* A backend /health that answered 503 because the probe failed while the
\* pool was in use.
C20_Witness ==
  \E i \in Slots :
    /\ be[i].pc = "done" /\ be[i].handler = "health"
    /\ be[i].queries = <<FALSE>> /\ ~poolEnded
    /\ be[i].resp[1].status = 503

\* The manifest as C16 describes the applied file: every occurrence of the
\* frontend image replaced by frontendImage, of the backend image by
\* backendImage, and the namespace otel-3tier by namespace.
RECURSIVE Substituted(_, _, _, _)
Substituted(text, namespace, frontendImage, backendImage) ==
  LET at(pattern) == Len(text) >= Len(pattern) /\ SubSeq(text, 1, Len(pattern)) = pattern
      rest(pattern) ==
        Substituted(SubSeq(text, Len(pattern) + 1, Len(text)),
                    namespace, frontendImage, backendImage)
  IN IF text = <<>> THEN <<>>
     ELSE IF at(FrontendPattern) THEN frontendImage \o rest(FrontendPattern)
     ELSE IF at(BackendPattern) THEN backendImage \o rest(BackendPattern)
     ELSE IF at(NamespacePattern) THEN namespace \o rest(NamespacePattern)
     ELSE <<Head(text)>> \o rest(<<Head(text)>>)

\* C16: the file deploy.sh applies is k8s/deployment.yaml with the two
\* images replaced by $FRONTEND_IMAGE and $BACKEND_IMAGE and the namespace
\* otel-3tier by $NAMESPACE, for every NAMESPACE.
C16_AppliedManifestHasImages ==
  (sh.run.script = "deploy" /\ sh.run.applied # NoFile)
    => sh.run.applied = Substituted(sh.manifest, sh.namespace, FrontendImage, BackendImage)

CleanupDeletedNothing ==
  /\ ~sh.run.namespaceDelete /\ ~sh.run.groupDelete
  /\ sh.files = sh.run.start

\* C17 as stated: unless the reply is exactly 'yes', cleanup.sh exits 0 and
\* has deleted nothing; with config.env missing it exits 1 before the prompt.
C17_AnyOtherReplyExitsZero ==
  /\ (sh.run.script = "cleanup" /\ sh.run.prompted /\ sh.run.reply # "yes") =>
       /\ sh.run.pc = "exited" /\ sh.run.exit = 0
       /\ CleanupDeletedNothing
  /\ (sh.run.script = "cleanup" /\ sh.run.pc = "exited" /\ ~sh.run.start.config) =>
       /\ sh.run.exit = 1 /\ ~sh.run.prompted
       /\ CleanupDeletedNothing

\* C17, amended: unless the reply is exactly 'yes', cleanup.sh has deleted
\* nothing and has ended, with status 0 after a reply that was read and with
\* status 1 when read met the end of input; whatever it deleted, it deleted
\* after the reply 'yes'; with config.env missing it exits 1 before the
\* prompt.
C17_CleanupNeedsYes ==
  /\ (sh.run.script = "cleanup" /\ sh.run.prompted /\ sh.run.reply # "yes") =>
       /\ sh.run.pc = "exited"
       /\ sh.run.exit = IF sh.run.reply = EOF THEN 1 ELSE 0
       /\ CleanupDeletedNothing
  /\ (sh.run.script = "cleanup" /\ ~CleanupDeletedNothing) =>
       /\ sh.run.prompted /\ sh.run.reply = "yes"
  /\ (sh.run.script = "cleanup" /\ sh.run.pc = "exited" /\ ~sh.run.start.config) =>
       /\ sh.run.exit = 1 /\ ~sh.run.prompted
       /\ CleanupDeletedNothing

\* cleanup.sh was answered YES with all three files present: it has ended
\* and the files are still there.
C17_Witness ==
  /\ sh.run.script = "cleanup" /\ sh.run.pc = "exited"
  /\ sh.run.prompted /\ sh.run.reply = "YES"
  /\ sh.files = Files(TRUE, TRUE, TRUE)

\* The parts of C18 about build-and-push.sh and deploy.sh: each exits 1
\* having done nothing when a file it needs is missing, and image-refs.env
\* is written after both builds and both pushes.
ScriptsRefuse ==
  /\ (sh.run.script = "build" /\ (~sh.run.start.config \/ ~sh.run.start.setupOut)) =>
       /\ sh.run.pc = "exited" /\ sh.run.exit = 1
       /\ sh.run.built = {} /\ sh.run.pushed = {} /\ ~sh.run.wrote
       /\ sh.files = sh.run.start
  /\ (sh.run.script = "deploy" /\ (~sh.run.start.config \/ ~sh.run.start.imageRefs)) =>
       /\ sh.run.pc = "exited" /\ sh.run.exit = 1
       /\ sh.run.applied = NoFile
       /\ sh.files = sh.run.start
  /\ (sh.run.script = "build" /\ sh.run.wrote) =>
       /\ sh.run.built = Images /\ sh.run.pushed = Images
  /\ (sh.run.script = "build" /\ sh.files.imageRefs /\ ~sh.run.start.imageRefs) =>
       sh.run.wrote

\* C18 as stated: the scripts refuse without their files, and after a
\* confirmed cleanup.sh setup-outputs.env and image-refs.env are gone.
C18_ConfirmedCleanupRemovesOutputs ==
  /\ ScriptsRefuse
  /\ (sh.run.script = "cleanup" /\ sh.run.pc = "exited" /\ sh.run.reply = "yes") =>
       /\ ~sh.files.setupOut /\ ~sh.files.imageRefs

\* C18, amended: the scripts refuse without their files, and after a
\* confirmed cleanup.sh that exits 0 setup-outputs.env and image-refs.env
\* are gone; a confirmed cleanup.sh whose az group delete fails exits 1 and
\* leaves both files as they were.
C18_ScriptOrder ==
  /\ ScriptsRefuse
  /\ (sh.run.script = "cleanup" /\ sh.run.pc = "exited" /\ sh.run.reply = "yes") =>
       /\ sh.run.groupDelete
       /\ sh.run.exit = 0 => (~sh.files.setupOut /\ ~sh.files.imageRefs)
       /\ sh.run.exit # 0 => sh.files = sh.run.start

\* build-and-push.sh was run after a cleanup removed setup-outputs.env and
\* has refused.
C18_Witness ==
  /\ sh.run.script = "build" /\ sh.run.pc = "exited" /\ sh.run.exit = 1
  /\ sh.run.start = Files(TRUE, FALSE, FALSE)

\* C21: GET /users/:id answers 200 with the row of that id, 404 'User not
\* found' when no user has the id, and 500 only when the database failed:
\* an id that names no user, integer or not, gets 404.
C21_UnknownIdIs404 ==
  \A i \in Slots :
    (be[i].pc = "done" /\ be[i].handler = "getUser") =>
      LET userId == be[i].path[2]
          answer == be[i].resp[1]
          exists == IsIntegerText(userId) /\ \E u \in users : u.id = IntegerOf(userId)
      IN /\ Len(be[i].resp) = 1
         /\ answer.status \in {200, 404, 500}
         /\ answer.status = 200 =>
              /\ exists
              /\ answer.body.kind = "row"
              /\ answer.body.rows[1].id = IntegerOf(userId)
         /\ answer.status = 404 => answer.body = ErrorBody("User not found")
         /\ answer.status = 500 => answer.body.kind = "error"
         /\ (~exists /\ answer.body # ErrorBody("query failed")) => answer.status = 404

ApiHandlers == {"getUsers", "getUser", "createUser", "getStats"}

\* C22: a frontend /api handler that has answered has sent the backend's
\* body with status 200 when the backend answered with a status in 200..299,
\* and status 500 with an error body in every other case: a backend status
\* outside 200..299 (the 404 of an unknown user, a 500, a 503) or no
\* response.
C22_ApiAnswers ==
  \A i \in Slots :
    (fe[i].pc = "done" /\ fe[i].handler \in ApiHandlers) =>
      /\ Len(fe[i].resp) = 1
      /\ be[i].origin = "frontend" /\ be[i].pc \in {"done", "refused"}
      /\ IF be[i].pc = "done" /\ be[i].resp[1].status \in 200..299
         THEN fe[i].resp[1] = Response(200, be[i].resp[1].body)
         ELSE /\ fe[i].resp[1].status = 500
              /\ fe[i].resp[1].body.kind = "error"
              /\ fe[i].resp[1].body.msg # ""
              /\ be[i].pc = "done" => fe[i].resp[1].body.code = be[i].resp[1].status

\* The backend answered 404 'User not found' and the frontend has reported
\* it as 500.
C22_Witness ==
  \E i \in Slots :
    /\ fe[i].pc = "done" /\ fe[i].handler = "getUser"
    /\ be[i].pc = "done" /\ be[i].resp[1] = Response(404, ErrorBody("User not found"))
    /\ fe[i].resp[1].status = 500

\* C24: a handler that has returned has ended the span it started exactly
\* once, whether it answered from the try block, from the 404 branch or from
\* the catch block; a handler that has not returned has not ended it; the
\* same holds for initDatabase.
C24_SpanEndedOnce ==
  /\ \A i \in Slots :
       /\ fe[i].spanStarted \in 0..1 /\ be[i].spanStarted \in 0..1
       /\ fe[i].spanStarted = 1 <=> fe[i].handler \in ApiHandlers \cup {"homepage"}
       /\ fe[i].spanEnded = IF fe[i].pc = "done" THEN fe[i].spanStarted ELSE 0
       /\ be[i].spanStarted = 1 <=>
            be[i].handler \in {"health", "getUsers", "getUser", "createUser", "getStats"}
       /\ be[i].spanEnded = IF be[i].pc = "done" THEN be[i].spanStarted ELSE 0
  /\ init.spanStarted = 1
  /\ init.spanEnded = IF init.pc \in {"done", "failed"} THEN 1 ELSE 0

\* The backend's GET /users/:id has answered 404 and the frontend handler
\* that called it has answered from its catch block: both spans are ended.
C24_Witness ==
  \E i \in Slots :
    /\ be[i].pc = "done" /\ be[i].handler = "getUser" /\ be[i].resp[1].status = 404
    /\ be[i].spanEnded = 1
    /\ fe[i].pc = "done" /\ fe[i].resp[1].status = 500 /\ fe[i].spanEnded = 1
    /\ init.pc = "done"

\* C25: a request that was handled has exactly one response and a request
\* in handling has none yet, also when the step after res.send threw and the
\* catch block called res.status(500).json.
C25_OneResponse ==
  \A i \in Slots :
    /\ Len(fe[i].resp) = IF fe[i].pc = "done" THEN 1 ELSE 0
    /\ Len(be[i].resp) = IF be[i].pc = "done" THEN 1 ELSE 0
    /\ (fe[i].handler = "homepage" /\ fe[i].pc = "done") =>
         fe[i].resp = <<Response(200, Body("html"))>>

\* The home page was sent, the step after res.send threw and the handler's
\* promise rejected.
C25_Witness ==
  \E i \in Slots :
    /\ fe[i].pc = "done" /\ fe[i].handler = "homepage" /\ fe[i].rejected
    /\ Len(fe[i].resp) = 1

====
